---- MODULE Spec2Model ----
(***************************************************************************)
(* A model of aax2mp3.py: the per-file conversion pipeline                 *)
(* (process_wrapper / convert_file / split_file / split_with_ffmpeg) and   *)
(* the dispatcher of main() (sequential loop or multiprocessing.Pool).     *)
(*                                                                         *)
(* Strings are sequences of tokens (a token is a run of characters that    *)
(* the code never looks inside, or a single significant character such as  *)
(* "/", " ", "_").  Paths are strings, so os.path.join, str.replace,       *)
(* sanitize and the substring test of the already-processed check are      *)
(* computed on them as the code computes them.  Times are in hundredths    *)
(* of a second.                                                            *)
(***************************************************************************)
EXTENDS Integers, Sequences, FiniteSets, TLC

\* ------------------------------------------------------------------ bounds
MaxFiles == 2
MaxWorkers == 2
MaxChapters == 2
MaxRuns == 2
MaxLines == 2

\* ----------------------------------------------------------------- strings
\* x in s, for strings
Contains(s, sub) ==
    \E k \in 0..(Len(s) - Len(sub)) : SubSeq(s, k + 1, k + Len(sub)) = sub

\* s.replace(old, new), for a one-token pattern
Replace(s, old, new) ==
    [k \in 1..Len(s) |-> IF s[k] = old THEN new ELSE s[k]]

IsPrefix(p, s) == Len(p) <= Len(s) /\ SubSeq(s, 1, Len(p)) = p

\* os.path.join(a, b): an absolute b discards a
os_path_join(a, b) ==
    IF b # <<>> /\ b[1] = "/" THEN b
    ELSE IF a = <<>> \/ a[Len(a)] = "/" THEN a \o b
    ELSE a \o <<"/">> \o b

\* the index of the last "/" of p, 0 when there is none
LastSep(p) ==
    IF \E k \in 1..Len(p) : p[k] = "/"
    THEN CHOOSE k \in 1..Len(p) : p[k] = "/" /\ \A j \in (k + 1)..Len(p) : p[j] # "/"
    ELSE 0

\* the directory part of p (<<>> is the working directory, <<"/">> the root)
Dirname(p) ==
    IF LastSep(p) = 0 THEN <<>>
    ELSE IF LastSep(p) = 1 THEN <<"/">>
    ELSE SubSeq(p, 1, LastSep(p) - 1)

\* p and every directory above it, as os.makedirs creates them
RECURSIVE Ancestors(_)
Ancestors(p) ==
    IF p = <<>> \/ p = <<"/">> THEN {} ELSE {p} \cup Ancestors(Dirname(p))

\* p lies inside directory d
Inside(d, p) == IsPrefix(d \o <<"/">>, p) /\ Len(p) > Len(d) + 1 /\ ~Contains(p, <<"..">>)

\* ---------------------------------------------------------------- sanitize
QuoteChars == {"'", "\""}
\* characters outside [a-zA-Z0-9._/-] that the inputs of this model use
UnsafeChars == {" ", ":"}
\* non-ASCII characters without an ASCII decomposition
NonAscii == {"U+2019"}

RECURSIVE CollapseUnderscores(_)
CollapseUnderscores(s) ==
    IF Len(s) < 2 THEN s
    ELSE IF s[1] = "_" /\ s[2] = "_" THEN CollapseUnderscores(Tail(s))
    ELSE <<s[1]>> \o CollapseUnderscores(Tail(s))

sanitize(s) ==
    LET ascii == SelectSeq(s, LAMBDA c : c \notin NonAscii)
        unq   == SelectSeq(ascii, LAMBDA c : c \notin QuoteChars)
        subst == [k \in 1..Len(unq) |-> IF unq[k] \in UnsafeChars THEN "_" ELSE unq[k]]
    IN  CollapseUnderscores(subst)

\* ------------------------------------------------------------------ codecs
codecs ==
    [c \in {"mp3", "aac", "m4a", "m4b", "flac", "opus"} |->
        CASE c = "mp3"  -> [codec |-> "libmp3lame", ext |-> ".mp3",  container |-> "mp3"]
          [] c = "aac"  -> [codec |-> "copy",       ext |-> ".m4a",  container |-> "m4a"]
          [] c = "m4a"  -> [codec |-> "copy",       ext |-> ".m4a",  container |-> "m4a"]
          [] c = "m4b"  -> [codec |-> "copy",       ext |-> ".m4a",  container |-> "m4b"]
          [] c = "flac" -> [codec |-> "flac",       ext |-> ".flac", container |-> "flac"]
          [] c = "opus" -> [codec |-> "libopus",    ext |-> ".opus", container |-> "opus"]]

\* ----------------------------------------------------- chapter boundaries
\* numfix: seconds to mp3splt's minutes.seconds (s keeps two decimals); n, s
\* in hundredths of a second
numfix(n) == [m |-> n \div 6000, s |-> n % 6000]

\* a variant of get_splitpoints that leaves out mp3splt's terminal point
get_splitpoints_no_terminal(container, m) ==
    LET starts == [k \in 1..Len(m.chapters) |-> m.chapters[k].start_time]
    IN  [raised |-> "",
         value |-> IF container = "mp3" THEN [k \in 1..Len(starts) |-> numfix(starts[k])]
                   ELSE starts]

\* get_splitpoints: the value returned, or the exception raised
\* (md["chapters"][-1] of an empty list is an IndexError)
get_splitpoints(container, m) ==
    LET ch     == m.chapters
        starts == [k \in 1..Len(ch) |-> ch[k].start_time]
    IN  IF container = "mp3"
        THEN IF ch = <<>>
             THEN [raised |-> "IndexError", value |-> <<>>]
             ELSE [raised |-> "",
                   value |-> [k \in 1..(Len(ch) + 1) |->
                                numfix(Append(starts, ch[Len(ch)].end_time)[k])]]
        ELSE [raised |-> "", value |-> starts]

\* a variant of destdir_error that does not notice a missing artist tag
destdir_error_title_only(m) ==
    IF m.kind = "None" THEN "TypeError"
    ELSE IF "title" \notin m.tags THEN "KeyError"
    ELSE ""

\* ------------------------------------------------------------------- paths
\* convert_file 378-384: destdir, or the exception that deriving it raises
\* (None["format"] is a TypeError, a missing tag a KeyError)
destdir_error(m) ==
    IF m.kind = "None" THEN "TypeError"
    ELSE IF "artist" \notin m.tags \/ "title" \notin m.tags THEN "KeyError"
    ELSE ""

destdir_of(a, m) ==
    sanitize(os_path_join(os_path_join(a.outdir, m.artist),
                          Replace(m.title, "/", "-")))

\* convert_file 391: f"{destdir}/metadata.json"
snapshot_of(d) == d \o <<"/", "metadata.json">>

\* convert_file 398, extract_image 339
cover_of(d) == os_path_join(d, <<"cover.jpg">>)

\* convert_file 412-413: the whole-book transcode's output
output_of(a, d, fn) ==
    os_path_join(d, Replace(fn, ".aax", codecs[a.container].ext))

\* split_with_ffmpeg 234-242: chapter k's output file
chapter_title(ch, k) ==
    IF ch.has_title THEN ch.title ELSE <<"Chapter", " ", ToString(k)>>

output_file(a, d, ch, k) ==
    os_path_join(d, <<"0", ToString(k), " ", "-", " ">>
                    \o Replace(sanitize(chapter_title(ch, k)), "_", " ")
                    \o <<codecs[a.container].ext>>)

\* split_file 315-319: mp3splt -o "Chapter @n" -d destdir
mp3splt_file(d, k) == os_path_join(d, <<"Chapter", " ", ToString(k), ".mp3">>)

\* the chapter outputs of a book, by strategy
chapter_outputs(a, d, m) ==
    IF a.container = "mp3"
    THEN {mp3splt_file(d, k) : k \in 1..Len(m.chapters)}
    ELSE {output_file(a, d, m.chapters[k], k) : k \in 1..Len(m.chapters)}

\* os.listdir(d) over the paths F
listdir(F, d) ==
    {SubSeq(p, Len(d) + 2, Len(p)) :
        p \in {q \in F : /\ IsPrefix(d \o <<"/">>, q)
                         /\ Len(q) > Len(d) + 1
                         /\ \A k \in (Len(d) + 2)..Len(q) : q[k] # "/"}}

\* convert_file 407: "Chapter " in str(os.listdir(destdir))
already_processed(F, d) ==
    \E name \in listdir(F, d) : Contains(name, <<"Chapter", " ">>)

\* a variant of after_snapshot that does not look at args.metadata
after_snapshot_ignores_flag(a) == "cover"

\* ----------------------------------------------------------- control flow
\* convert_file 394-395
after_snapshot(a) == IF a.metadata THEN "done" ELSE "cover"

\* a variant of after_cover that goes past the already-processed check
after_cover_skips_check(a) == IF a.coverimage THEN "done" ELSE "transcode"

\* convert_file 404-405
after_cover(a) == IF a.coverimage THEN "done" ELSE "check"

\* convert_file 466-470: test mode goes to the splitter without transcoding
after_check(a) == IF a.test THEN "split" ELSE "transcode"

\* convert_file 479-487: the transcode's exit status is not looked at
after_transcode(a, rv) == IF a.single THEN "done" ELSE "split"

\* a variant of unlink_after_ffmpeg_split that does not look at success
unlink_after_ffmpeg_split_always(a, ok) == ~a.test /\ ~a.keep

\* split_with_ffmpeg 294
unlink_after_ffmpeg_split(a, ok) == ok /\ ~a.test /\ ~a.keep

\* split_file 329
unlink_after_mp3splt(a, rv) == rv = 0 /\ ~a.keep

\* a variant of after_exception for a wrapper without its except clauses:
\* the exception ends the process that runs the wrapper
after_exception_propagates(exc) == "crashed"

\* process_wrapper 494-502: both calls are wrapped in except Exception, so
\* the wrapper returns normally whatever was raised
after_exception(exc) == "done"

\* a variant of embed_cover that looks only at the file, not at cover_file
embed_cover_ignores_reference(a, cf, F, d) ==
    cover_of(d) \in F /\ a.container \in {"m4a", "m4b", "aac"}

\* split_with_ffmpeg 229-230: embed_cover; cf: cover_file is not None
embed_cover(a, cf, F, d) ==
    cf /\ cover_of(d) \in F /\ a.container \in {"m4a", "m4b", "aac"}

\* a variant of track_of that numbers from enumerate's index
track_zero_based(k, n) == <<k - 1, n>>

\* split_with_ffmpeg 274: track={chapter_num}/{num_chapters}
track_of(k, n) == <<k, n>>

\* a variant of next_chapter that leaves the loop at the first failure
next_chapter_stops(k, n, rv) == IF rv # 0 THEN n + 1 ELSE k + 1

\* split_with_ffmpeg 233, 283-292: the loop goes on to the next chapter
\* whatever rv is (test mode: continue)
next_chapter(k, n, rv) == k + 1

\* main 569
sequential(a) == a.processes < 2

\* a variant of maxtasksperchild: a worker is kept for two tasks
maxtasksperchild_two == 1 + 1

\* main 573: Pool(processes=args.processes, maxtasksperchild=1); with
\* chunksize=1 (575) a task is one file
maxtasksperchild == 1

\* the exit statuses an external tool may end with on input inp; can: what
\* it needs to succeed is in place
ToolExit(inp, can) ==
    IF ~can THEN {1} ELSE IF inp.tools = "work" THEN {0} ELSE {0, 1}

\* ------------------------------------------------------------------ inputs
\* md is None (probe_metadata returned None, or raised and process_wrapper
\* kept its md = None)
None == [kind |-> "None"]

\* chapter k of a book: consecutive chapters of 90.5 s; a chapter either has
\* no title tag or is titled "Prologue"
Chapter(k, titled) ==
    [start_time |-> (k - 1) * 9050, end_time |-> k * 9050,
     has_title |-> titled, title |-> <<"Prologue">>]

\* the chapter lists of the probe results: up to MaxChapters chapters
ChapterLists ==
    {<<>>} \cup
    UNION {[1..n -> {TRUE}] : n \in 1..MaxChapters} \cup
    UNION {[1..n -> {FALSE}] : n \in 1..MaxChapters}

\* what ffprobe's json gives for file i: format.tags (artist and title
\* present or not) and the chapters
ProbeResult(i, tags, titled) ==
    [kind |-> "dict", tags |-> tags, artist |-> <<"A">>,
     title |-> <<"My", " ", "Book", ToString(i)>>,
     chapters |-> [k \in DOMAIN titled |-> Chapter(k, titled[k])]]

RelName(i) == <<"b", ToString(i), ".aax">>
AbsName(i) == <<"/", "in", "/", "b", ToString(i), ".aax">>

\* the i-th command-line input and what probing it gives
\*   exists: os.path.exists(fn);  probe: "ok" or "raises" (check_output or
\*   loads raised);  md: the parsed probe output when probe = "ok";
\*   tools: "any" when ffmpeg and mp3splt may fail on the file at any
\*   invocation, "work" when they succeed wherever they can
Inputs(i) ==
    {[fn |-> RelName(i), exists |-> FALSE, probe |-> "ok", md |-> None,
      tools |-> "any"]} \cup
    {[fn |-> RelName(i), exists |-> TRUE, probe |-> "raises", md |-> None,
      tools |-> "any"]} \cup
    {[fn |-> RelName(i), exists |-> TRUE, probe |-> "ok",
      md |-> ProbeResult(i, t, <<>>), tools |-> "any"] :
        t \in {{"artist"}, {"title"}}} \cup
    {[fn |-> f, exists |-> TRUE, probe |-> "ok",
      md |-> ProbeResult(i, {"artist", "title"}, c), tools |-> "any"] :
        f \in {RelName(i), AbsName(i)}, c \in ChapterLists}

\* the inputs of multi-file batches: one of each fault (a missing file, a
\* failing probe, a missing artist or title tag, a book without chapters, on which mp3's
\* get_splitpoints raises) and a book with one chapter; the tools work
BatchInputs(i) ==
    {[x EXCEPT !.tools = "work"] :
        x \in {y \in Inputs(i) :
                /\ y.fn = RelName(i)
                /\ y.md.kind = "dict" =>
                    /\ Len(y.md.chapters) <= 1
                    /\ \A k \in DOMAIN y.md.chapters : ~y.md.chapters[k].has_title}}

\* the parsed command line (main, 507-551), mono left out: it changes only
\* the -ab/-ac arguments and the name of outdir
ArgsSet ==
    [container : {"mp3", "m4b", "flac"}, outdir : {<<"Audiobooks">>},
     processes : 1..MaxWorkers,
     overwrite : BOOLEAN, coverimage : BOOLEAN, single : BOOLEAN,
     keep : BOOLEAN, test : BOOLEAN, verbose : BOOLEAN, metadata : BOOLEAN]

\* the flags at their defaults (551)
DefaultArgs ==
    {a \in ArgsSet : ~a.overwrite /\ ~a.coverimage /\ ~a.single /\ ~a.keep
                     /\ ~a.test /\ ~a.verbose /\ ~a.metadata}

\* ------------------------------------------------------------------- state
VARIABLES
    args,        \* the global args (read-only once main has parsed it)
    input,       \* args.input: the files given, with what probing each gives
    run,         \* how many times main() has been started
    mainpc,      \* where main() is: "start", "seq", "map", "done"
    wstate,      \* pool worker pid -> "unborn", "idle", "busy", "exited"
    wtasks,      \* pool worker pid -> tasks completed
    fs,          \* the paths that exist (files and directories)
    pc,          \* file -> where its process_wrapper call is
    owner,       \* file -> pid running its process_wrapper (0: main process)
    calls,       \* file -> process_wrapper calls for it in this run
    md,          \* file -> md of process_wrapper
    cover_file,  \* file -> convert_file's cover_file is not None
    cover_rv,    \* file -> exit status of extract_image's ffmpeg (-1: not run)
    success,     \* file -> the splitter's success (rv == 0 for mp3splt)
    chap,        \* file -> next chapter of split_with_ffmpeg's loop
    split_result,\* file -> how the splitter ended: "" (not yet), "ok", "failed",
                 \*         "dry" (test mode), "raised"
    rvx,         \* file -> exit status of the whole-book transcode
    log,         \* file -> the steps of this run's pipeline, in order
    started,     \* file -> external tools convert_file has started this run
    touched,     \* file -> files its pipeline created, overwrote or deleted
    made,        \* file -> directories its pipeline created
    had,         \* file -> chapter outputs were in place when this run began
    splitpoints, \* file -> splitpoints of split_file, once computed
    job,         \* run_ffmpeg_with_progress: its arguments and what the
                 \*   subprocess will do (show_progress, HAS_TQDM,
                 \*   total_duration, whether Popen raises, the lines of
                 \*   process.stdout)
    xpc,         \* where the call of run_ffmpeg_with_progress is: "idle" (not
                 \*   called), "call", "read", "wait", "fallback", "returned",
                 \*   "raised" (an exception left the function)
    stdout,      \* the lines of process.stdout not read yet
    pbar,        \* pbar.n, the value the progress bar shows
    current_progress,
    cmd_starts,  \* how many times the command has been started
    process,     \* the Popen object: "none", "running", "exited"
    result,      \* the value returned (-1: none yet)
    fault,       \* the exception raised in progress mode ("": none)
    plain_status,\* what os.system(cmd_str) returned (-1: not called)
    invoked      \* file -> the per-chapter commands split_with_ffmpeg built,
                 \*         in order: ordinal, track tag, output file, whether
                 \*         the cover is a second input, whether it was run
                 \*         (not in test mode) and its exit status

vars == <<args, input, run, mainpc, wstate, wtasks, fs, pc, owner, calls, md,
          cover_file, success, chap, split_result, rvx, log, started, touched,
          made, had, splitpoints, invoked, cover_rv, job, xpc, stdout, pbar,
          current_progress, cmd_starts, process, result, fault, plain_status>>

\* the variables of a call of run_ffmpeg_with_progress
xvars == <<job, xpc, stdout, pbar, current_progress, cmd_starts, process, result,
           fault, plain_status>>

Files == DOMAIN input
MaxPid == MaxWorkers + MaxFiles
Pids == 1..MaxPid

\* the input files that exist, and the directories they are in
InputPaths(inp) ==
    UNION {Ancestors(inp[i].fn) : i \in {j \in DOMAIN inp : inp[j].exists}}

\* ------------------------------------------- run_ffmpeg_with_progress: data
\* A float is [k |-> "num", v |-> seconds], [k |-> "nan"] or [k |-> "inf"];
\* one ":"-separated part of a time string is a float's text or "bad" (text
\* float() rejects, such as N/A or the empty string).
Num(v) == [k |-> "num", v |-> v]
NaN == [k |-> "nan"]
Inf == [k |-> "inf"]
Bad == [k |-> "bad"]

\* a + b and a * c (c > 0) on floats
FAdd(a, b) ==
    IF a.k = "nan" \/ b.k = "nan" THEN NaN
    ELSE IF a.k = "inf" \/ b.k = "inf" THEN Inf
    ELSE Num(a.v + b.v)

FMul(a, c) == IF a.k = "num" THEN Num(a.v * c) ELSE a

\* parse_ffmpeg_time 46-59, on time_str.split(":"); a ValueError gives 0
parse_ffmpeg_time(parts) ==
    IF \E j \in 1..Len(parts) : parts[j].k = "bad" THEN Num(0)
    ELSE IF Len(parts) = 3
    THEN FAdd(FAdd(FMul(parts[1], 3600), FMul(parts[2], 60)), parts[3])
    ELSE IF Len(parts) = 2 THEN FAdd(FMul(parts[1], 60), parts[2])
    ELSE IF Len(parts) = 1 THEN parts[1]
    ELSE Num(0)

\* int(x): truncation toward zero
Trunc(n, d) == IF n >= 0 THEN n \div d ELSE -((-n) \div d)

\* a variant of new_progress without the cap at 100
new_progress_uncapped(current_time, total) ==
    IF current_time.k = "nan" THEN [raised |-> "ValueError", value |-> 0]
    ELSE IF current_time.k = "inf" THEN [raised |-> "OverflowError", value |-> 0]
    ELSE [raised |-> "", value |-> Trunc(current_time.v * 100, total)]

\* 105: min(int((current_time / total_duration) * 100), 100); int() of a nan
\* is a ValueError, of an infinity an OverflowError
new_progress(current_time, total) ==
    IF current_time.k = "nan" THEN [raised |-> "ValueError", value |-> 0]
    ELSE IF current_time.k = "inf" THEN [raised |-> "OverflowError", value |-> 0]
    ELSE [raised |-> "",
          value |-> IF Trunc(current_time.v * 100, total) < 100
                    THEN Trunc(current_time.v * 100, total) ELSE 100]

\* 75: the condition of plain execution
plain_mode(j) == ~j.show_progress \/ ~j.has_tqdm \/ j.total_duration <= 0

\* a variant of on_progress_fault for a function without its except clause
on_progress_fault_propagates(exc) == "raised"

\* 116-119: except Exception: fall back to os.system
on_progress_fault(exc) == "fallback"

\* what os.system and Popen.returncode can give
ExitStatuses == {0, 1}

\* the text after "out_time=": 00:00:03, 00:00:05, 00:00:20, 00:08, N/A, nan
TimeStrs ==
    {<<Num(0), Num(0), Num(3)>>, <<Num(0), Num(0), Num(5)>>,
     <<Num(0), Num(0), Num(20)>>, <<Num(0), Num(8)>>, <<Bad>>, <<NaN>>}

\* the lines process.stdout can give: out_time=..., progress=end, any other
\* line (frame=..., out_time_ms=...), and bytes that do not decode
StdoutLines ==
    {[kind |-> "out_time", time_str |-> t] : t \in TimeStrs} \cup
    {[kind |-> "progress=end", time_str |-> <<>>],
     [kind |-> "other", time_str |-> <<>>],
     [kind |-> "undecodable", time_str |-> <<>>]}

Streams == UNION {[1..n -> StdoutLines] : n \in 0..MaxLines}

Jobs ==
    [show_progress : BOOLEAN, has_tqdm : BOOLEAN, total_duration : {0, 10},
     popen_raises : BOOLEAN, lines : Streams]

\* run_ffmpeg_with_progress is not being called
ExecutorIdle ==
    /\ job = [show_progress |-> FALSE, has_tqdm |-> FALSE, total_duration |-> 0,
              popen_raises |-> FALSE, lines |-> <<>>]
    /\ xpc = "idle"
    /\ stdout = <<>>
    /\ pbar = 0
    /\ current_progress = 0
    /\ cmd_starts = 0
    /\ process = "none"
    /\ result = -1
    /\ fault = ""
    /\ plain_status = -1

InitWith(n, A, In) ==
    /\ args \in A
    /\ input \in {f \in [1..n -> UNION {In[i] : i \in 1..n}] :
                    \A i \in 1..n : f[i] \in In[i]}
    /\ run = 1
    /\ mainpc = "start"
    /\ wstate = [p \in Pids |-> "unborn"]
    /\ wtasks = [p \in Pids |-> 0]
    /\ fs = InputPaths(input)
    /\ pc = [i \in 1..n |-> "queued"]
    /\ owner = [i \in 1..n |-> 0]
    /\ calls = [i \in 1..n |-> 0]
    /\ md = [i \in 1..n |-> None]
    /\ cover_file = [i \in 1..n |-> FALSE]
    /\ success = [i \in 1..n |-> TRUE]
    /\ chap = [i \in 1..n |-> 1]
    /\ split_result = [i \in 1..n |-> ""]
    /\ rvx = [i \in 1..n |-> 0]
    /\ log = [i \in 1..n |-> <<>>]
    /\ started = [i \in 1..n |-> 0]
    /\ touched = [i \in 1..n |-> {}]
    /\ made = [i \in 1..n |-> {}]
    /\ had = [i \in 1..n |-> FALSE]
    /\ splitpoints = [i \in 1..n |-> <<>>]
    /\ invoked = [i \in 1..n |-> <<>>]
    /\ cover_rv = [i \in 1..n |-> -1]

\* one input file, every combination of flags; the file keeps one worker
\* busy, so pools of one and two workers are the cases
Init ==
    /\ InitWith(1, {a \in ArgsSet : a.processes <= 2}, [i \in {1} |-> Inputs(i)])
    /\ ExecutorIdle

\* up to MaxFiles input files, flags at their defaults
InitBatch ==
    /\ \E n \in 1..MaxFiles : InitWith(n, DefaultArgs, [i \in 1..n |-> BatchInputs(i)])
    /\ ExecutorIdle

\* a call of run_ffmpeg_with_progress, with any arguments and any output of
\* the subprocess; the caller's state stays as it is during the call
InitProgress ==
    /\ InitWith(1, {a \in DefaultArgs : a.container = "mp3" /\ a.processes = 1},
                [i \in {1} |-> {x \in BatchInputs(i) : ~x.exists}])
    /\ job \in Jobs
    /\ xpc = "call"
    /\ stdout = <<>>
    /\ pbar = 0
    /\ current_progress = 0
    /\ cmd_starts = 0
    /\ process = "none"
    /\ result = -1
    /\ fault = ""
    /\ plain_status = -1

\* ---------------------------------------------------------------- pipeline
Upd(f, i, v) == [f EXCEPT ![i] = v]

\* destdir, output and src of file i once its md is a probe result
DestDir(i) == destdir_of(args, md[i])
Output(i) == output_of(args, DestDir(i), input[i].fn)

\* what a step of a file's pipeline leaves alone
DispatcherUnchanged ==
    UNCHANGED <<args, input, run, mainpc, wstate, wtasks, owner, calls, had, xvars>>

\* probe_metadata 180-209: the value returned, or the exception raised
probe_metadata(inp) ==
    IF ~inp.exists THEN [raised |-> "", value |-> None]
    ELSE IF inp.probe = "raises" THEN [raised |-> "CalledProcessError", value |-> None]
    ELSE [raised |-> "", value |-> inp.md]

\* process_wrapper 493-497: md stays None when probing raises; convert_file
\* is called next either way
Probe(i) ==
    /\ pc[i] = "probe"
    /\ LET r == probe_metadata(input[i])
       IN  md' = Upd(md, i, IF r.raised # "" THEN None ELSE r.value)
    /\ log' = Upd(log, i, Append(log[i], "probe"))
    /\ pc' = Upd(pc, i, "convert")
    /\ UNCHANGED <<split_result, fs, cover_file, success, chap, rvx, started, touched, made>>
    /\ UNCHANGED <<splitpoints, invoked, cover_rv>>
    /\ DispatcherUnchanged

\* convert_file 375-395: destdir, makedirs, metadata.json, metadata-only stop
Derive(i) ==
    /\ pc[i] = "convert"
    /\ LET e == destdir_error(md[i])
       IN  IF e # ""
           THEN /\ pc' = Upd(pc, i, IF e = "KeyError" THEN "done" ELSE after_exception(e))
                /\ UNCHANGED <<fs, log, touched, made>>
           ELSE LET d == DestDir(i)
                IN  /\ fs' = fs \cup Ancestors(d) \cup {snapshot_of(d)}
                    /\ made' = Upd(made, i, made[i] \cup (Ancestors(d) \ fs))
                    /\ touched' = Upd(touched, i, touched[i] \cup {snapshot_of(d)})
                    /\ log' = Upd(log, i, Append(log[i], "snapshot"))
                    /\ pc' = Upd(pc, i, after_snapshot(args))
    /\ UNCHANGED <<split_result, md, cover_file, success, chap, rvx, started>>
    /\ UNCHANGED <<splitpoints, invoked, cover_rv>>
    /\ DispatcherUnchanged

\* convert_file 397-405 with extract_image 338-362: ffmpeg -n refuses an
\* existing cover.jpg; check_output raises on a non-zero exit
Cover(i) ==
    /\ pc[i] = "cover"
    /\ LET out == cover_of(DestDir(i))
           rm  == out \in fs /\ args.overwrite
           fs1 == IF rm THEN fs \ {out} ELSE fs
       IN  IF args.test
           THEN /\ fs' = fs1
                /\ touched' = Upd(touched, i, touched[i] \cup (IF rm THEN {out} ELSE {}))
                /\ cover_file' = Upd(cover_file, i, TRUE)
                /\ UNCHANGED <<started, cover_rv>>
           ELSE \E rv \in ToolExit(input[i], out \notin fs1 /\ input[i].fn \in fs1) :
                /\ fs' = IF rv = 0 THEN fs1 \cup {out} ELSE fs1
                /\ touched' = Upd(touched, i,
                                  touched[i] \cup (IF rm \/ rv = 0 THEN {out} ELSE {}))
                /\ cover_file' = Upd(cover_file, i, rv = 0)
                /\ cover_rv' = Upd(cover_rv, i, rv)
                /\ started' = Upd(started, i, started[i] + 1)
    /\ log' = Upd(log, i, Append(log[i], "cover"))
    /\ pc' = Upd(pc, i, after_cover(args))
    /\ UNCHANGED <<split_result, md, success, chap, rvx, made>>
    /\ UNCHANGED <<splitpoints, invoked>>
    /\ DispatcherUnchanged

\* convert_file 407-470: the already-processed check, removal of an old
\* transcoded file, and (test or verbose) the print of the split points
Check(i) ==
    /\ pc[i] = "check"
    /\ log' = Upd(log, i, Append(log[i], "check"))
    /\ IF already_processed(fs, DestDir(i))
       THEN /\ pc' = Upd(pc, i, "done")
            /\ UNCHANGED <<fs, touched>>
       ELSE LET out == Output(i)
                rm  == out \in fs /\ args.overwrite
                sp  == get_splitpoints(args.container, md[i])
            IN  /\ fs' = IF rm THEN fs \ {out} ELSE fs
                /\ touched' = Upd(touched, i, touched[i] \cup (IF rm THEN {out} ELSE {}))
                /\ pc' = Upd(pc, i,
                             IF (args.test \/ args.verbose) /\ sp.raised # ""
                             THEN after_exception(sp.raised)
                             ELSE after_check(args))
    /\ UNCHANGED <<split_result, md, cover_file, success, chap, rvx, started, made>>
    /\ UNCHANGED <<splitpoints, invoked, cover_rv>>
    /\ DispatcherUnchanged

\* convert_file 472-485 with run_ffmpeg_with_progress: ffmpeg -n refuses an
\* existing output and needs the input and the output's directory
Transcode(i) ==
    /\ pc[i] = "transcode"
    /\ LET out == Output(i)
           can == /\ input[i].fn \in fs
                  /\ out \notin fs
                  /\ Dirname(out) = <<>> \/ Dirname(out) \in fs
       IN  \E rv \in ToolExit(input[i], can) :
            /\ fs' = IF rv = 0 THEN fs \cup {out} ELSE fs
            /\ touched' = Upd(touched, i, touched[i] \cup (IF rv = 0 THEN {out} ELSE {}))
            /\ rvx' = Upd(rvx, i, rv)
            /\ pc' = Upd(pc, i, after_transcode(args, rv))
    /\ started' = Upd(started, i, started[i] + 1)
    /\ log' = Upd(log, i, Append(log[i], "transcode"))
    /\ UNCHANGED <<split_result, md, cover_file, success, chap, made>>
    /\ UNCHANGED <<splitpoints, invoked, cover_rv>>
    /\ DispatcherUnchanged

\* split_file 300-335: the mp3splt run and its cleanup, or the entry of
\* split_with_ffmpeg
Split(i) ==
    /\ pc[i] = "split"
    /\ LET sp  == get_splitpoints(args.container, md[i])
           d   == DestDir(i)
           src == Output(i)
       IN  IF sp.raised # ""
           THEN /\ pc' = Upd(pc, i, after_exception(sp.raised))
                /\ split_result' = Upd(split_result, i, "raised")
                /\ log' = Upd(log, i, Append(log[i], "split"))
                /\ UNCHANGED <<fs, touched, success, chap, started>>
           ELSE IF args.container # "mp3"
           THEN /\ pc' = Upd(pc, i, "chapters")
                /\ chap' = Upd(chap, i, 1)
                /\ success' = Upd(success, i, TRUE)
                /\ log' = Upd(log, i, Append(log[i], "split"))
                /\ UNCHANGED <<fs, touched, started, split_result>>
           ELSE IF args.test
           THEN /\ pc' = Upd(pc, i, "done")
                /\ split_result' = Upd(split_result, i, "dry")
                /\ log' = Upd(log, i, Append(log[i], "split"))
                /\ UNCHANGED <<fs, touched, success, chap, started>>
           ELSE \E rv \in ToolExit(input[i], src \in fs) :
                LET outs == IF rv = 0 THEN chapter_outputs(args, d, md[i]) ELSE {}
                    rm   == unlink_after_mp3splt(args, rv)
                IN  /\ fs' = (fs \cup outs) \ (IF rm THEN {src} ELSE {})
                    /\ touched' = Upd(touched, i,
                                      touched[i] \cup outs \cup (IF rm THEN {src} ELSE {}))
                    /\ success' = Upd(success, i, rv = 0)
                    /\ split_result' = Upd(split_result, i, IF rv = 0 THEN "ok" ELSE "failed")
                    /\ started' = Upd(started, i, started[i] + 1)
                    /\ log' = Upd(log, i, log[i] \o (IF rm THEN <<"split", "cleanup">>
                                                          ELSE <<"split">>))
                    /\ pc' = Upd(pc, i, "done")
                    /\ UNCHANGED chap
    /\ splitpoints' = Upd(splitpoints, i, get_splitpoints(args.container, md[i]).value)
    /\ UNCHANGED <<md, cover_file, rvx, made, invoked, cover_rv>>
    /\ DispatcherUnchanged

\* split_with_ffmpeg 233-292: one pass of the loop, chapter chap[i]
ChapterStep(i) ==
    /\ pc[i] = "chapters"
    /\ chap[i] <= Len(md[i].chapters)
    /\ LET n   == Len(md[i].chapters)
           out == output_file(args, DestDir(i), md[i].chapters[chap[i]], chap[i])
           cmd == [n |-> chap[i], track |-> track_of(chap[i], n), out |-> out,
                   cover |-> embed_cover(args, cover_file[i], fs, DestDir(i))]
       IN  IF args.test
           THEN /\ chap' = Upd(chap, i, next_chapter(chap[i], n, 0))
                /\ invoked' = Upd(invoked, i,
                                  Append(invoked[i], [cmd |-> cmd, run |-> FALSE, rv |-> 0]))
                /\ UNCHANGED <<fs, touched, success, started>>
           ELSE \E rv \in ToolExit(input[i], Output(i) \in fs) :
                /\ chap' = Upd(chap, i, next_chapter(chap[i], n, rv))
                /\ invoked' = Upd(invoked, i,
                                  Append(invoked[i], [cmd |-> cmd, run |-> TRUE, rv |-> rv]))
                /\ fs' = IF rv = 0 THEN fs \cup {out} ELSE fs
                /\ touched' = Upd(touched, i, touched[i] \cup (IF rv = 0 THEN {out} ELSE {}))
                /\ success' = Upd(success, i, success[i] /\ rv = 0)
                /\ started' = Upd(started, i, started[i] + 1)
    /\ UNCHANGED <<pc, md, cover_file, split_result, rvx, log, made, splitpoints,
                   cover_rv>>
    /\ DispatcherUnchanged

\* split_with_ffmpeg 294-297: after the loop; os.unlink of a missing src
\* raises FileNotFoundError
Cleanup(i) ==
    /\ pc[i] = "chapters"
    /\ chap[i] > Len(md[i].chapters)
    /\ LET src == Output(i)
       IN  IF unlink_after_ffmpeg_split(args, success[i])
           THEN IF src \in fs
                THEN /\ fs' = fs \ {src}
                     /\ touched' = Upd(touched, i, touched[i] \cup {src})
                     /\ log' = Upd(log, i, Append(log[i], "cleanup"))
                     /\ split_result' = Upd(split_result, i,
                                            IF success[i] THEN "ok" ELSE "failed")
                     /\ pc' = Upd(pc, i, "done")
                ELSE /\ pc' = Upd(pc, i, after_exception("FileNotFoundError"))
                     /\ split_result' = Upd(split_result, i, "raised")
                     /\ UNCHANGED <<fs, touched, log>>
           ELSE /\ pc' = Upd(pc, i, "done")
                /\ split_result' = Upd(split_result, i,
                                       IF args.test THEN "dry"
                                       ELSE IF success[i] THEN "ok" ELSE "failed")
                /\ UNCHANGED <<fs, touched, log>>
    /\ UNCHANGED <<md, cover_file, success, chap, rvx, started, made>>
    /\ UNCHANGED <<splitpoints, invoked, cover_rv>>
    /\ DispatcherUnchanged

\* -------------------------------------------------------------- dispatcher
PipelineUnchanged ==
    UNCHANGED <<fs, md, cover_file, success, chap, split_result, rvx, log, started,
                touched, made, splitpoints, invoked, cover_rv, xvars>>

InProgress(i) == pc[i] \notin {"queued", "done", "crashed"}

\* the pids Pool() starts with
FirstWorkers(a) == 1..a.processes

\* main 569-575: the sequential loop, or the creation of the pool
\* (multiprocessing is taken to be importable, so 566-567 does nothing)
MainStart ==
    /\ mainpc = "start"
    /\ IF sequential(args)
       THEN /\ mainpc' = "seq"
            /\ UNCHANGED wstate
       ELSE /\ mainpc' = "map"
            /\ wstate' = [p \in Pids |->
                            IF p \in FirstWorkers(args) THEN "idle" ELSE "unborn"]
    /\ UNCHANGED <<args, input, run, wtasks, pc, owner, calls, had>>
    /\ PipelineUnchanged

\* main 570-571: the next process_wrapper(fn) of the loop, in the main process
SeqNext(i) ==
    /\ mainpc = "seq"
    /\ pc[i] = "queued"
    /\ \A j \in Files : j < i => pc[j] = "done"
    /\ pc' = Upd(pc, i, "probe")
    /\ owner' = Upd(owner, i, 0)
    /\ calls' = Upd(calls, i, calls[i] + 1)
    /\ UNCHANGED <<args, input, run, mainpc, wstate, wtasks, had>>
    /\ PipelineUnchanged

\* main 570-577: the loop is over
SeqDone ==
    /\ mainpc = "seq"
    /\ \A i \in Files : pc[i] = "done"
    /\ mainpc' = "done"
    /\ UNCHANGED <<args, input, run, wstate, wtasks, pc, owner, calls, had>>
    /\ PipelineUnchanged

\* main 575: an idle worker takes the next task of the map (chunksize=1: the
\* next file) and calls process_wrapper on it; idle workers are alike, so
\* the one with the lowest pid stands for whichever takes it
PoolTake(p, i) ==
    /\ mainpc = "map"
    /\ wstate[p] = "idle"
    /\ \A q \in Pids : q < p => wstate[q] # "idle"
    /\ wtasks[p] < maxtasksperchild
    /\ pc[i] = "queued"
    /\ \A j \in Files : j < i => pc[j] # "queued"
    /\ wstate' = Upd(wstate, p, "busy")
    /\ pc' = Upd(pc, i, "probe")
    /\ owner' = Upd(owner, i, p)
    /\ calls' = Upd(calls, i, calls[i] + 1)
    /\ UNCHANGED <<args, input, run, mainpc, wtasks, had>>
    /\ PipelineUnchanged

\* main 573: a worker has finished its task; at maxtasksperchild tasks it
\* exits and the pool starts a fresh worker in its place
PoolFinish(p) ==
    /\ mainpc = "map"
    /\ wstate[p] = "busy"
    /\ \A i \in Files : (owner[i] = p /\ pc[i] # "queued") => pc[i] = "done"
    /\ wtasks' = Upd(wtasks, p, wtasks[p] + 1)
    /\ IF wtasks[p] + 1 >= maxtasksperchild
       THEN LET unborn == {q \in Pids : wstate[q] = "unborn"}
                fresh  == CHOOSE q \in unborn : \A r \in unborn : q <= r
            IN  wstate' = IF unborn = {} THEN Upd(wstate, p, "exited")
                          ELSE [wstate EXCEPT ![p] = "exited", ![fresh] = "idle"]
       ELSE wstate' = Upd(wstate, p, "idle")
    /\ UNCHANGED <<args, input, run, mainpc, pc, owner, calls, had>>
    /\ PipelineUnchanged

\* main 575-577: map returns once every task's result is in
MapReturn ==
    /\ mainpc = "map"
    /\ \A i \in Files : pc[i] = "done" /\ wstate[owner[i]] # "busy"
    /\ mainpc' = "done"
    /\ UNCHANGED <<args, input, run, wstate, wtasks, pc, owner, calls, had>>
    /\ PipelineUnchanged

\* the chapter outputs of file i's book are all in place
HasChapterOutputs(i) ==
    /\ destdir_error(md[i]) = ""
    /\ chapter_outputs(args, DestDir(i), md[i]) # {}
    /\ chapter_outputs(args, DestDir(i), md[i]) \subseteq fs

\* main 580-581: the program is run again on the same command line; the
\* file system is what the earlier run left (followed for one-file batches)
Restart ==
    /\ mainpc = "done"
    /\ run < MaxRuns
    /\ Len(input) = 1
    /\ run' = run + 1
    /\ mainpc' = "start"
    /\ had' = [i \in Files |-> HasChapterOutputs(i)]
    /\ wstate' = [p \in Pids |-> "unborn"]
    /\ wtasks' = [p \in Pids |-> 0]
    /\ pc' = [i \in Files |-> "queued"]
    /\ owner' = [i \in Files |-> 0]
    /\ calls' = [i \in Files |-> 0]
    /\ md' = [i \in Files |-> None]
    /\ cover_file' = [i \in Files |-> FALSE]
    /\ success' = [i \in Files |-> TRUE]
    /\ chap' = [i \in Files |-> 1]
    /\ split_result' = [i \in Files |-> ""]
    /\ rvx' = [i \in Files |-> 0]
    /\ log' = [i \in Files |-> <<>>]
    /\ started' = [i \in Files |-> 0]
    /\ touched' = [i \in Files |-> {}]
    /\ made' = [i \in Files |-> {}]
    /\ splitpoints' = [i \in Files |-> <<>>]
    /\ invoked' = [i \in Files |-> <<>>]
    /\ cover_rv' = [i \in Files |-> -1]
    /\ UNCHANGED <<args, input, fs, xvars>>

Next ==
    \/ MainStart
    \/ SeqDone
    \/ MapReturn
    \/ Restart
    \/ \E i \in Files : SeqNext(i)
    \/ \E i \in Files : Probe(i)
    \/ \E i \in Files : Derive(i)
    \/ \E i \in Files : Cover(i)
    \/ \E i \in Files : Check(i)
    \/ \E i \in Files : Transcode(i)
    \/ \E i \in Files : Split(i)
    \/ \E i \in Files : ChapterStep(i)
    \/ \E i \in Files : Cleanup(i)
    \/ \E p \in Pids : PoolFinish(p)
    \/ \E p \in Pids, i \in Files : PoolTake(p, i)

Spec == Init /\ [][Next]_vars

SpecBatch == InitBatch /\ [][Next]_vars

\* ---------------------------------------------- run_ffmpeg_with_progress
CallerUnchanged ==
    UNCHANGED <<args, input, run, mainpc, wstate, wtasks, fs, pc, owner, calls, md,
                cover_file, success, chap, split_result, rvx, log, started, touched,
                made, had, splitpoints, invoked, cover_rv, job>>

\* 75-78: plain execution, os.system's value returned as it is
Plain ==
    /\ xpc = "call"
    /\ plain_mode(job)
    /\ \E st \in ExitStatuses :
        /\ plain_status' = st
        /\ result' = st
    /\ cmd_starts' = cmd_starts + 1
    /\ xpc' = "returned"
    /\ UNCHANGED <<stdout, pbar, current_progress, process, fault>>
    /\ CallerUnchanged

\* 93-98: Popen starts the command, or raises (OSError)
Popen ==
    /\ xpc = "call"
    /\ ~plain_mode(job)
    /\ IF job.popen_raises
       THEN /\ fault' = "OSError"
            /\ xpc' = on_progress_fault("OSError")
            /\ UNCHANGED <<stdout, cmd_starts, process>>
       ELSE /\ process' = "running"
            /\ cmd_starts' = cmd_starts + 1
            /\ stdout' = job.lines
            /\ xpc' = "read"
            /\ UNCHANGED fault
    /\ UNCHANGED <<pbar, current_progress, result, plain_status>>
    /\ CallerUnchanged

\* 100-111: one line of process.stdout
ReadLine ==
    /\ xpc = "read"
    /\ stdout # <<>>
    /\ stdout' = Tail(stdout)
    /\ LET line == Head(stdout)
           np   == new_progress(parse_ffmpeg_time(line.time_str), job.total_duration)
       IN  CASE line.kind = "undecodable" ->
                    /\ fault' = "UnicodeDecodeError"
                    /\ xpc' = on_progress_fault("UnicodeDecodeError")
                    /\ UNCHANGED <<pbar, current_progress>>
             [] line.kind = "out_time" ->
                    IF np.raised # ""
                    THEN /\ fault' = np.raised
                         /\ xpc' = on_progress_fault(np.raised)
                         /\ UNCHANGED <<pbar, current_progress>>
                    ELSE IF np.value > current_progress
                    THEN /\ pbar' = pbar + (np.value - current_progress)
                         /\ current_progress' = np.value
                         /\ UNCHANGED <<xpc, fault>>
                    ELSE UNCHANGED <<pbar, current_progress, xpc, fault>>
             [] line.kind = "progress=end" ->
                    /\ pbar' = pbar + (100 - current_progress)
                    /\ xpc' = "wait"
                    /\ UNCHANGED <<current_progress, fault>>
             [] line.kind = "other" ->
                    UNCHANGED <<pbar, current_progress, xpc, fault>>
    /\ UNCHANGED <<cmd_starts, process, result, plain_status>>
    /\ CallerUnchanged

\* 100: the subprocess has closed its output, the for loop is over
EndOfOutput ==
    /\ xpc = "read"
    /\ stdout = <<>>
    /\ xpc' = "wait"
    /\ UNCHANGED <<stdout, pbar, current_progress, cmd_starts, process, result, fault,
                   plain_status>>
    /\ CallerUnchanged

\* 113-115: process.wait() and the return of process.returncode
Wait ==
    /\ xpc = "wait"
    /\ process' = "exited"
    /\ \E st \in ExitStatuses : result' = st
    /\ xpc' = "returned"
    /\ UNCHANGED <<stdout, pbar, current_progress, cmd_starts, fault, plain_status>>
    /\ CallerUnchanged

\* 116-119: the except clause runs the original command with os.system and
\* returns its value; a subprocess Popen started is neither waited for nor
\* stopped
Fallback ==
    /\ xpc = "fallback"
    /\ \E st \in ExitStatuses :
        /\ plain_status' = st
        /\ result' = st
    /\ cmd_starts' = cmd_starts + 1
    /\ xpc' = "returned"
    /\ UNCHANGED <<stdout, pbar, current_progress, process, fault>>
    /\ CallerUnchanged

NextProgress ==
    \/ Plain
    \/ Popen
    \/ ReadLine
    \/ EndOfOutput
    \/ Wait
    \/ Fallback

SpecProgress == InitProgress /\ [][NextProgress]_vars

\* ------------------------------------------------------------------ claims
Logged(i, step) == \E k \in 1..Len(log[i]) : log[i][k] = step

PipelineOrder ==
    <<"probe", "snapshot", "cover", "check", "transcode", "split", "cleanup">>

\* test mode goes from the check to the splitter and deletes nothing
DryRunOrder == <<"probe", "snapshot", "cover", "check", "split">>

ProbeGaveMetadata(i) ==
    /\ probe_metadata(input[i]).raised = ""
    /\ probe_metadata(input[i]).value.kind = "dict"

\* C1: the steps of a file's pipeline occur in the fixed order probe,
\* snapshot write, cover extraction, already-processed check, transcode,
\* split, cleanup, each after the one before has returned (the steps taken
\* so far are a prefix of that order; a dry run has no transcode), and no
\* transcode, split or other tool is started for a file whose probe did not
\* return metadata.
C1_PipelineOrder ==
    \A i \in Files :
        /\ IF args.test THEN IsPrefix(log[i], DryRunOrder)
                        ELSE IsPrefix(log[i], PipelineOrder)
        /\ ~ProbeGaveMetadata(i) =>
            ~Logged(i, "transcode") /\ ~Logged(i, "split") /\ started[i] = 0

\* a pipeline that went through every step
C1_Witness == \E i \in Files : log[i] = PipelineOrder

\* a file whose pipeline has nothing to fail on: the input exists, the probe
\* gives both tags, and the boundary calculation does not raise
Healthy(i) ==
    /\ ProbeGaveMetadata(i)
    /\ destdir_error(input[i].md) = ""
    /\ get_splitpoints(args.container, input[i].md).raised = ""

Faulty(i) ==
    \/ ~input[i].exists
    \/ probe_metadata(input[i]).raised # ""
    \/ destdir_error(input[i].md) # ""
    \/ get_splitpoints(args.container, input[i].md).raised # ""

\* the steps of main and of the pool, as opposed to those of a pipeline
DispatcherStep ==
    \/ MainStart
    \/ SeqDone
    \/ MapReturn
    \/ \E i \in Files : SeqNext(i)
    \/ \E p \in Pids : PoolFinish(p)
    \/ \E p \in Pids, i \in Files : PoolTake(p, i)

\* C2: for any list of files and any worker count, process_wrapper is called
\* exactly once per file (never twice, and once for every file by the time
\* main is through), no fault of a file gets out of its process_wrapper,
\* whenever no pipeline is in progress and main is not through the
\* dispatcher can go on (start the next file or finish), and in a first run
\* a file with nothing wrong ends with a successful split whatever the
\* faults of the other files.
C2_EveryFileOnce ==
    /\ \A i \in Files :
        /\ calls[i] <= 1
        /\ calls[i] = 1 <=> pc[i] # "queued"
        /\ pc[i] # "crashed"
        /\ (run = 1 /\ Healthy(i) /\ pc[i] = "done") => split_result[i] = "ok"
    /\ mainpc = "done" => \A i \in Files : calls[i] = 1 /\ pc[i] = "done"
    /\ (mainpc # "done" /\ \A i \in Files : ~InProgress(i)) =>
        ENABLED DispatcherStep

\* main is through a batch in which one file had a fault and another, with
\* nothing wrong, was split
C2_Witness ==
    /\ mainpc = "done"
    /\ \E i, j \in Files :
        /\ Faulty(i) /\ calls[i] = 1
        /\ Healthy(j) /\ calls[j] = 1 /\ split_result[j] = "ok"

\* C3 (as claimed): when the whole-book transcode exits non-zero the
\* pipeline stops: the splitter is not invoked and the intermediate file is
\* not deleted.
C3_TranscodeFailureStops ==
    \A i \in Files :
        rvx[i] # 0 => ~Logged(i, "split") /\ ~Logged(i, "cleanup")

\* C4: once the splitter has returned outside test mode: after a successful
\* split without keep the intermediate file does not exist; after a failed
\* split the splitter has deleted nothing, so the file the transcode wrote
\* is still there, whatever the flags.
C4_IntermediateLifecycle ==
    \A i \in Files :
        /\ (split_result[i] = "ok" /\ ~args.keep) => Output(i) \notin fs
        /\ split_result[i] = "failed" =>
            /\ ~Logged(i, "cleanup")
            /\ (Logged(i, "transcode") /\ rvx[i] = 0) => Output(i) \in fs

\* a failed split after a transcode that wrote the intermediate file
C4_Witness ==
    \E i \in Files :
        split_result[i] = "failed" /\ Logged(i, "transcode") /\ rvx[i] = 0

\* C5 (as claimed): when the destination directory holds the chapter
\* outputs of an earlier run, the run starts no transcode and no split.
C5_RerunIsSkip ==
    \A i \in Files :
        had[i] => ~Logged(i, "transcode") /\ ~Logged(i, "split")

\* C6: metadata.json is written before cover extraction, the
\* already-processed check or any tool starts, in every mode, for every file
\* whose destination directory can be derived; in metadata-only mode the
\* pipeline stops right after the write: no cover extraction, transcode or
\* split.
C6_SnapshotFirst ==
    \A i \in Files :
        /\ (Logged(i, "cover") \/ Logged(i, "check") \/ Logged(i, "transcode")
            \/ Logged(i, "split") \/ started[i] > 0) =>
            /\ SubSeq(log[i], 1, 2) = <<"probe", "snapshot">>
            /\ snapshot_of(DestDir(i)) \in touched[i]
        /\ (destdir_error(md[i]) = "" /\ pc[i] # "convert") =>
            Logged(i, "snapshot") /\ snapshot_of(DestDir(i)) \in fs
        /\ args.metadata =>
            /\ started[i] = 0
            /\ IsPrefix(log[i], <<"probe", "snapshot">>)
            /\ Logged(i, "snapshot") => pc[i] = "done"

\* a metadata-only pipeline that has written its snapshot and stopped
C6_Witness ==
    \E i \in Files :
        /\ args.metadata
        /\ pc[i] = "done"
        /\ log[i] = <<"probe", "snapshot">>
        /\ snapshot_of(DestDir(i)) \in fs

MissingTag(i) ==
    md[i].kind = "dict" /\ {"artist", "title"} \ md[i].tags # {}

\* C7: when the probe result lacks the artist or the title tag, the
\* conversion of the file ends at once with no side effect (no directory
\* made, no file written or deleted, no tool started), and the batch goes on:
\* the sequential loop can start the next file; in the pool the worker can
\* finish its task or an idle worker can take the next file.
C7_MetadataErrorAborts ==
    \A i \in Files :
        (MissingTag(i) /\ pc[i] # "convert") =>
            /\ pc[i] = "done"
            /\ log[i] = <<"probe">>
            /\ made[i] = {} /\ touched[i] = {} /\ started[i] = 0
            /\ \A j \in Files :
                (j = i + 1 /\ pc[j] = "queued") =>
                    IF mainpc = "seq" THEN ENABLED SeqNext(j)
                    ELSE ENABLED (\E p \in Pids : PoolFinish(p) \/ PoolTake(p, j))

\* a file aborted on a missing tag, and a later file that ran its pipeline
C7_Witness ==
    \E i, j \in Files :
        /\ MissingTag(i) /\ pc[i] = "done"
        /\ i < j /\ pc[j] = "done" /\ Logged(j, "split")

OwnedBy(p) == {i \in Files : pc[i] # "queued" /\ owner[i] = p}

C9_WritesInsideDestdir ==
    \A i \in Files : \A p \in touched[i] : Inside(DestDir(i), p)

\* C10 (as claimed): for a book without chapters and any format,
\* get_splitpoints returns an empty sequence without raising, and the
\* splitter reports success having started no tool and made no chapter file.
C10_NoChaptersIsNoOp ==
    \A i \in Files :
        (Logged(i, "split") /\ md[i].chapters = <<>>) =>
            /\ get_splitpoints(args.container, md[i]) = [raised |-> "", value |-> <<>>]
            /\ pc[i] = "done" => split_result[i] \in {"ok", "dry"}

\* C11: for a book with N >= 1 chapters the split points split_file computes
\* are, for mp3 (mp3splt), exactly N + 1 points in chapter order: the N
\* chapter start times, then the last chapter's end time, each in numfix's
\* minutes.seconds form; for every other format exactly the N start times.
C11_SplitPoints ==
    \A i \in Files :
        (Logged(i, "split") /\ Len(md[i].chapters) >= 1) =>
            LET ch == md[i].chapters
                N  == Len(ch)
                sp == splitpoints[i]
            IN  IF args.container = "mp3"
                THEN /\ Len(sp) = N + 1
                     /\ \A k \in 1..N : sp[k] = numfix(ch[k].start_time)
                     /\ sp[N + 1] = numfix(ch[N].end_time)
                ELSE /\ Len(sp) = N
                     /\ \A k \in 1..N : sp[k] = ch[k].start_time

\* the split points of an mp3 book with at least two chapters
C11_Witness ==
    \E i \in Files :
        /\ args.container = "mp3"
        /\ Logged(i, "split")
        /\ Len(md[i].chapters) >= 2
        /\ Len(splitpoints[i]) = Len(md[i].chapters) + 1

\* split_with_ffmpeg has been entered for file i in this run
StreamCopy(i) == args.container # "mp3" /\ Logged(i, "split")

\* C12: in split_with_ffmpeg a failing per-chapter ffmpeg never stops the
\* loop: the commands are built in chapter order 1, 2, ..., outside test
\* mode each is run, when the loop is over all N chapters have had theirs
\* whatever the earlier exit statuses, and success is false from the first
\* non-zero exit status on.
C12_AllChaptersAttempted ==
    \A i \in Files :
        StreamCopy(i) =>
            /\ \A k \in 1..Len(invoked[i]) :
                /\ invoked[i][k].cmd.n = k
                /\ invoked[i][k].run = ~args.test
            /\ pc[i] = "chapters" => Len(invoked[i]) = chap[i] - 1
            /\ pc[i] # "chapters" => Len(invoked[i]) = Len(md[i].chapters)
            /\ success[i] = \A k \in 1..Len(invoked[i]) : invoked[i][k].rv = 0

\* the first chapter's ffmpeg failed and the second chapter's was still run
C12_Witness ==
    \E i \in Files :
        /\ StreamCopy(i)
        /\ Len(invoked[i]) >= 2
        /\ invoked[i][1].run /\ invoked[i][1].rv # 0
        /\ invoked[i][2].run
        /\ ~success[i]

\* C13: in progress mode the value the progress bar shows never decreases
\* and is never above 100 (nor below 0), whatever out_time lines the stream
\* holds: out of order, repeated, unparseable, beyond total_duration.
C13_ProgressMonotone ==
    /\ [](0 <= pbar /\ pbar <= 100 /\ pbar >= current_progress)
    /\ [][pbar' >= pbar]_vars

\* a stream whose first timestamp is beyond total_duration and whose second
\* is lower than the first, read to its end
C13_Witness ==
    /\ xpc = "wait"
    /\ Len(job.lines) >= 2
    /\ job.lines[1] = [kind |-> "out_time", time_str |-> <<Num(0), Num(0), Num(20)>>]
    /\ job.lines[2] = [kind |-> "out_time", time_str |-> <<Num(0), Num(0), Num(3)>>]
    /\ stdout = <<>>
    /\ pbar = 100

\* a call that went through progress mode without a fault and returned
ProgressModeReturned == xpc = "returned" /\ ~plain_mode(job) /\ fault = ""

\* C14 (as claimed): when a progress-mode run is over the bar shows exactly
\* 100, with or without a progress=end line in the stream.
C14_EndsAt100 == ProgressModeReturned => pbar = 100

\* C15: no fault of progress mode (Popen raising, a line that does not
\* decode, a timestamp whose conversion raises) leaves the function: after
\* a fault the function is in its fallback or has returned, and what it
\* returns is what os.system gave for the original command.
C15_FaultFallsBack ==
    /\ xpc # "raised"
    /\ fault # "" => xpc \in {"fallback", "returned"}
    /\ (fault # "" /\ xpc = "returned") =>
        plain_status \in ExitStatuses /\ result = plain_status

\* a timestamp in the middle of the stream raised, and the call returned
\* os.system's value
C15_Witness ==
    /\ fault = "ValueError"
    /\ Len(job.lines) >= 2 /\ Len(stdout) = Len(job.lines) - 2
    /\ xpc = "returned"
    /\ result = plain_status

\* C20 (as claimed): a call of run_ffmpeg_with_progress starts the command
\* exactly once, in plain mode, in progress mode, and when progress mode
\* fails part-way and falls back.
C20_StartedOnce ==
    /\ cmd_starts <= 1
    /\ xpc = "returned" => cmd_starts = 1

\* extract_image's ffmpeg was run for file i and exited non-zero
CoverFailed(i) == cover_rv[i] > 0

\* C16: when cover extraction fails, cover_file is cleared (None), the
\* pipeline goes on from the cover step exactly where it goes otherwise (to
\* the already-processed check, or to the end in cover-only mode), and no
\* per-chapter command of the file has the cover image as a second input.
C16_CoverFailureNonFatal ==
    \A i \in Files :
        CoverFailed(i) =>
            /\ ~cover_file[i]
            /\ SubSeq(log[i], 1, 3) = <<"probe", "snapshot", "cover">>
            /\ Len(log[i]) = 3 => pc[i] = (IF args.coverimage THEN "done" ELSE "check")
            /\ \A k \in 1..Len(invoked[i]) : ~invoked[i][k].cmd.cover

\* cover extraction failed with a cover.jpg in place (ffmpeg -n refused to
\* replace the one an earlier run wrote), the container can embed covers,
\* and a chapter's ffmpeg was run
C16_Witness ==
    \E i \in Files :
        /\ CoverFailed(i)
        /\ cover_of(DestDir(i)) \in fs
        /\ args.container = "m4b"
        /\ Len(invoked[i]) >= 1
        /\ invoked[i][1].run

\* C17 (as claimed): in cover-only mode the pipeline stops after cover
\* extraction, with no transcode and no split; in single-file mode the
\* splitter is never invoked and the transcoded file is not deleted by a
\* cleanup.
C17_StopModes ==
    \A i \in Files :
        /\ args.coverimage => IsPrefix(log[i], <<"probe", "snapshot", "cover">>)
        /\ args.single => ~Logged(i, "split") /\ ~Logged(i, "cleanup")

\* the file name of a path
Basename(p) == SubSeq(p, LastSep(p) + 1, Len(p))

\* C18: in split_with_ffmpeg the k-th command built for a book of N chapters
\* has ordinal k (so the ordinals are 1, 2, ... without a gap, N of them
\* when the loop is over), its output file's name starts with the two-digit
\* k, and its track tag is k/N.
C18_OrdinalsMatchTrack ==
    \A i \in Files :
        StreamCopy(i) =>
            /\ \A k \in 1..Len(invoked[i]) :
                /\ invoked[i][k].cmd.n = k
                /\ SubSeq(Basename(invoked[i][k].cmd.out), 1, 2) = <<"0", ToString(k)>>
                /\ invoked[i][k].cmd.track = <<k, Len(md[i].chapters)>>
            /\ split_result[i] # "" => Len(invoked[i]) = Len(md[i].chapters)

\* every chapter of a book of at least two chapters was written
C18_Witness ==
    \E i \in Files :
        /\ StreamCopy(i)
        /\ split_result[i] = "ok"
        /\ Len(invoked[i]) >= 2
        /\ \A k \in 1..Len(invoked[i]) : invoked[i][k].cmd.out \in fs

\* no path separator, no quote character, no non-ASCII character in s
NoSeparatorQuoteNonAscii(s) ==
    \A k \in 1..Len(s) : s[k] \notin ({"/"} \cup QuoteChars \cup NonAscii)

\* C19 (as claimed): what sanitize returns holds no path separator, no quote
\* character and no non-ASCII character; stated of the call of convert_file,
\* sanitize(destdir), and of the call on each chapter title.
C19_SanitizeOutput ==
    \A i \in Files :
        /\ Logged(i, "snapshot") =>
            NoSeparatorQuoteNonAscii(
                sanitize(os_path_join(os_path_join(args.outdir, md[i].artist),
                                      Replace(md[i].title, "/", "-"))))
        /\ StreamCopy(i) =>
            \A k \in 1..Len(invoked[i]) :
                NoSeparatorQuoteNonAscii(sanitize(chapter_title(md[i].chapters[k], k)))

====
